---- MODULE Spec2Model ----
(***************************************************************************)
(* Startup / connection sequence of the MEN starter kit scripts.           *)
(*                                                                         *)
(* One run of the model is one Node.js process executing one script:       *)
(*   dbconnect        src/unnamed/part_001                                 *)
(*   dbconnect_b      src/server.js 97-198 (same program as dbconnect)     *)
(*   create           src/create.js                                        *)
(*   server_cjs       src/server.js 1-79                                   *)
(*   server_guarded   src/unnamed/part_000 1-228                           *)
(*   server_unguarded src/unnamed/part_000 230-380                         *)
(*   server_readme    src/README.md 192-391                                *)
(*                                                                         *)
(* The top-level statements of a script run to completion before any       *)
(* callback; a promise settling, its reactions (the continuation of main   *)
(* after the await, the .catch attached to main()) run as one step.        *)
(***************************************************************************)
EXTENDS Integers, Sequences, FiniteSets, TLC

VARIABLES
    script,       \* the script this process runs
    env,          \* process.env after dotenv.config(): MONGO_URI, PORT
    pc,           \* index of the next top-level statement of the script
    conn,         \* promise returned by mongoose.connect
    connectCalls, \* number of calls of mongoose.connect
    mainP,        \* promise returned by main()
    listeners,    \* events of mongoose.connection with a listener registered
    emitted,      \* connection events emitted and not yet delivered
    routes,       \* paths registered with app.get
    server,       \* state of the server created by app.listen
    listenCalls,  \* number of calls of app.listen
    listenPort,   \* the port passed to app.listen
    served,       \* number of requests answered
    lastBody,     \* body of the last response sent
    save,         \* promise chain of employee.save()
    log,          \* lines written by console.log / console.error, in order
    exits,        \* status codes passed to process.exit, in order
    proc          \* "running", "exited" (process.exit) or "crashed" (uncaught error)

vars == <<script, env, pc, conn, connectCalls, mainP, listeners, emitted, routes,
          server, listenCalls, listenPort, served, lastBody, save, log, exits, proc>>

----------------------------------------------------------------------------
(* Bounds *)

MaxRequests == 2

----------------------------------------------------------------------------
(* JavaScript values read from process.env *)

Undefined == [t |-> "undefined"]

Str(s) == [t |-> "string", v |-> s]

Num(n) == [t |-> "number", n |-> n]

\* ToBoolean on undefined / string / number values.
Truthy(x) ==
    CASE x.t = "undefined" -> FALSE
      [] x.t = "string" -> x.v # ""
      [] x.t = "number" -> x.n # 0

\* a ?? b: only undefined falls back to b.
Or_Nullish(a, b) == IF a = Undefined THEN b ELSE a

\* a || b
Or(a, b) == IF Truthy(a) THEN a ELSE b

MongoUriValues ==
    {Undefined, Str(""), Str("mongodb+srv://cluster0.mongodb.net/abc-college")}

PortValues == {Undefined, Str(""), Str("8080")}

----------------------------------------------------------------------------
(* The scripts *)

Scripts ==
    {"dbconnect", "dbconnect_b", "create", "server_cjs",
     "server_guarded", "server_unguarded", "server_readme"}

ServerScripts == {"server_cjs", "server_guarded", "server_unguarded", "server_readme"}

\* The scripts with main() called a second time where create.js attaches
\* the .catch handler.
TopLevel_MainTwice(s) ==
    CASE s = "dbconnect"        -> <<"guard", "main">>
      [] s = "dbconnect_b"      -> <<"guard", "main">>
      [] s = "create"           -> <<"main", "main", "getIntroduction", "save">>
      [] s = "server_cjs"       -> <<"connect", "on_connected", "on_error", "get", "listen">>
      [] s = "server_guarded"   -> <<"guard", "main", "get", "listen">>
      [] s = "server_unguarded" -> <<"main", "get", "get", "listen">>
      [] s = "server_readme"    -> <<"guard", "main", "get", "listen">>

\* The top-level statements of each script that act on the state, in order.
TopLevel(s) ==
    CASE s = "dbconnect"        -> <<"guard", "main">>
      [] s = "dbconnect_b"      -> <<"guard", "main">>
      [] s = "create"           -> <<"main", "getIntroduction", "save">>
      [] s = "server_cjs"       -> <<"connect", "on_connected", "on_error", "get", "listen">>
      [] s = "server_guarded"   -> <<"guard", "main", "get", "listen">>
      [] s = "server_unguarded" -> <<"main", "get", "get", "listen">>
      [] s = "server_readme"    -> <<"guard", "main", "get", "listen">>

\* main() wraps the await in try/catch.
MainHasTryCatch(s) == s \in {"dbconnect", "dbconnect_b", "create", "server_readme"}

\* The scripts with no handler attached to main() in the servers.
OuterCatch_NotAttached(s) ==
    CASE s = "create" -> "exit"
      [] s = "server_readme" -> "log"
      [] OTHER -> "none"

\* What the handler attached with main().catch does: nothing attached,
\* log only, or log and process.exit(1).
OuterCatch(s) ==
    CASE s \in {"dbconnect", "dbconnect_b"} -> "none"
      [] s = "create" -> "exit"
      [] s \in {"server_guarded", "server_unguarded", "server_readme"} -> "log"
      [] OTHER -> "none"

\* app.listen(...).on('error', ...) is attached.
ListenHasErrorHandler(s) == s = "server_readme"

GuardMessage(s) ==
    IF s = "server_guarded"
    THEN "MONGO_URI is not defined in .env file"
    ELSE "MONGO_URI is not defined in environment variables."

RootBody(s) ==
    IF s = "server_readme"
    THEN "MongoDB, Express, and Node.js are working!"
    ELSE "Hello, world!"

DefaultPort == 3000

mongoURI == env.MONGO_URI

port ==
    IF script = "server_readme" THEN Or(env.PORT, Num(DefaultPort)) ELSE Num(DefaultPort)

----------------------------------------------------------------------------
(* The process: console and process.exit *)

Running == proc = "running"

AtStep(name) ==
    /\ Running
    /\ pc <= Len(TopLevel(script))
    /\ TopLevel(script)[pc] = name

\* No JavaScript is on the stack: callbacks and promise reactions may run.
StackEmpty == Running /\ pc > Len(TopLevel(script))

\* The observable part of the process a statement acts on.
Proc == [log |-> log, exits |-> exits, proc |-> proc]

\* console.log / console.error: nothing runs once the process has ended.
ConsoleLog(st, msg) ==
    IF st.proc = "running" THEN [st EXCEPT !.log = Append(@, msg)] ELSE st

\* process.exit(code): the process ends, the call does not return.
ProcessExit(st, code) ==
    IF st.proc = "running"
    THEN [st EXCEPT !.exits = Append(@, code), !.proc = "exited"]
    ELSE st

\* An error nobody handles (an 'error' event without listener, an unhandled
\* rejection in throw mode) ends the process with Node's status 1.
Uncaught(st) ==
    IF st.proc = "running" THEN [st EXCEPT !.proc = "crashed"] ELSE st

Commit(st) ==
    /\ log' = st.log
    /\ exits' = st.exits
    /\ proc' = st.proc

----------------------------------------------------------------------------
(* Text conversions used in log lines *)

DigitText(d) ==
    CASE d = 0 -> "0" [] d = 1 -> "1" [] d = 2 -> "2" [] d = 3 -> "3" [] d = 4 -> "4"
      [] d = 5 -> "5" [] d = 6 -> "6" [] d = 7 -> "7" [] d = 8 -> "8" [] d = 9 -> "9"

RECURSIVE NumText(_)
\* String(n) for a natural number.
NumText(n) == IF n < 10 THEN DigitText(n) ELSE NumText(n \div 10) \o DigitText(n % 10)

\* `${value}` in a template literal.
Text(x) ==
    CASE x.t = "undefined" -> "undefined"
      [] x.t = "string" -> x.v
      [] x.t = "number" -> NumText(x.n)

ServerRunningMessage(p) == "Server running at http://localhost:" \o Text(p) \o "/"

----------------------------------------------------------------------------
(* create.js: the Employee document and its custom method *)

\* new Employee({...}): a String path of the schema holds a string, or is
\* undefined when the constructor was given no value for it.
employee ==
    [employee_id |-> Str("emp007"), name |-> Str("James Bond"),
     email |-> Str("jamesbond@college.com"), position |-> Str("Developer"),
     age |-> Num(58), date_hired |-> Str("2022-07-03")]

\* employeeSchema.methods.getIntroduction: the line it logs.
getIntroduction(doc) ==
    IF Truthy(doc.name)
    THEN "Hello, my name is " \o Text(doc.name) \o " and I am an " \o Text(doc.position)
    ELSE "I don't have a name"

----------------------------------------------------------------------------
(* Initial state: the process has loaded the environment, nothing has run *)

Init ==
    /\ script \in Scripts
    /\ env \in [MONGO_URI : MongoUriValues, PORT : PortValues]
    /\ pc = 1
    /\ conn = "none"
    /\ connectCalls = 0
    /\ mainP = "none"
    /\ listeners = {}
    /\ emitted = {}
    /\ routes = <<>>
    /\ server = "none"
    /\ listenCalls = 0
    /\ listenPort = Undefined
    /\ served = 0
    /\ lastBody = ""
    /\ save = "none"
    /\ log = <<>>
    /\ exits = <<>>
    /\ proc = "running"

----------------------------------------------------------------------------
(* Top-level statements *)

ExitFailure == 1

\* The guard with the process.exit(1) left out.
GuardStatement_LogOnly(s, uri, st) ==
    IF ~Truthy(uri) THEN ConsoleLog(st, GuardMessage(s)) ELSE st

\* if (!mongoURI) { console.error(...); process.exit(1); }
GuardStatement(s, uri, st) ==
    IF ~Truthy(uri)
    THEN ProcessExit(ConsoleLog(st, GuardMessage(s)), ExitFailure)
    ELSE st

Guard ==
    /\ AtStep("guard")
    /\ Commit(GuardStatement(script, mongoURI, Proc))
    /\ pc' = pc + 1
    /\ UNCHANGED <<script, env, conn, connectCalls, mainP, listeners, emitted, routes,
                   server, listenCalls, listenPort, served, lastBody, save>>

\* main() with the await left out: the connect is started and the success
\* line is logged at once.
CallMain_NoAwait ==
    /\ AtStep("main")
    /\ conn' = "pending"
    /\ connectCalls' = connectCalls + 1
    /\ mainP' = "fulfilled"
    /\ Commit(ConsoleLog(Proc, "Connected to MongoDB Atlas"))
    /\ pc' = pc + 1
    /\ UNCHANGED <<script, env, listeners, emitted, routes, server, listenCalls,
                   listenPort, served, lastBody, save>>

\* main(): runs synchronously up to `await mongoose.connect(mongoURI, ...)`.
\* The .catch handler, where there is one, is attached to the promise returned.
CallMain ==
    /\ AtStep("main")
    /\ conn' = "pending"
    /\ connectCalls' = connectCalls + 1
    /\ mainP' = "pending"
    /\ pc' = pc + 1
    /\ UNCHANGED <<script, env, listeners, emitted, routes, server, listenCalls,
                   listenPort, served, lastBody, save, log, exits, proc>>

\* server.js (CommonJS): mongoose.connect(mongoURI, {...}) at top level, the
\* promise it returns is dropped.
CallConnect ==
    /\ AtStep("connect")
    /\ conn' = "pending"
    /\ connectCalls' = connectCalls + 1
    /\ pc' = pc + 1
    /\ UNCHANGED <<script, env, mainP, listeners, emitted, routes, server, listenCalls,
                   listenPort, served, lastBody, save, log, exits, proc>>

\* mongoose.connection.on('connected' | 'error', ...)
RegisterListener ==
    /\ \E e \in {"connected", "error"} :
          /\ AtStep("on_" \o e)
          /\ listeners' = listeners \cup {e}
    /\ pc' = pc + 1
    /\ UNCHANGED <<script, env, conn, connectCalls, mainP, emitted, routes, server,
                   listenCalls, listenPort, served, lastBody, save, log, exits, proc>>

\* app.get('/', (req, res) => res.send(...))
RegisterRoute ==
    /\ AtStep("get")
    /\ routes' = Append(routes, "/")
    /\ pc' = pc + 1
    /\ UNCHANGED <<script, env, conn, connectCalls, mainP, listeners, emitted, server,
                   listenCalls, listenPort, served, lastBody, save, log, exits, proc>>

\* app.listen(port, callback): called at top level, the bind completes later.
Listen ==
    /\ AtStep("listen")
    /\ server' = "binding"
    /\ listenCalls' = listenCalls + 1
    /\ listenPort' = port
    /\ pc' = pc + 1
    /\ UNCHANGED <<script, env, conn, connectCalls, mainP, listeners, emitted, routes,
                   served, lastBody, save, log, exits, proc>>

\* employee.getIntroduction();
CallGetIntroduction ==
    /\ AtStep("getIntroduction")
    /\ Commit(ConsoleLog(Proc, getIntroduction(employee)))
    /\ pc' = pc + 1
    /\ UNCHANGED <<script, env, conn, connectCalls, mainP, listeners, emitted, routes,
                   server, listenCalls, listenPort, served, lastBody, save>>

\* await employee.save().then(...).catch(...): the save is issued and the
\* module is suspended at the top-level await.
CallSave ==
    /\ AtStep("save")
    /\ save' = "pending"
    /\ pc' = pc + 1
    /\ UNCHANGED <<script, env, conn, connectCalls, mainP, listeners, emitted, routes,
                   server, listenCalls, listenPort, served, lastBody, log, exits, proc>>

----------------------------------------------------------------------------
(* Callbacks: they run only when the stack is empty *)

\* mongoose.connect rejects a URI that is not a non-empty connection string;
\* for a well-formed one the network decides.
ConnectOutcomes(uri) == IF Truthy(uri) THEN {"ok", "fail"} ELSE {"fail"}

\* --unhandled-rejections of the Node.js running the script: warn and go on
\* (the default before Node 15) or throw (the default since).
UnhandledRejectionModes == {"warn", "throw"}

\* main() without the success log.
MainAfterAwait_NoSuccessLog(s, outcome, st) ==
    IF outcome = "ok"
    THEN [st |-> st, mainP |-> "fulfilled"]
    ELSE IF MainHasTryCatch(s)
         THEN LET st2 == ProcessExit(ConsoleLog(st, "MongoDB connection error"),
                                     ExitFailure)
              IN  [st |-> st2,
                   mainP |-> IF st2.proc = "running" THEN "fulfilled" ELSE "pending"]
         ELSE [st |-> st, mainP |-> "rejected"]

\* main() whose catch block exits before it logs.
MainAfterAwait_ExitBeforeLog(s, outcome, st) ==
    IF outcome = "ok"
    THEN [st |-> ConsoleLog(st, "Connected to MongoDB Atlas"), mainP |-> "fulfilled"]
    ELSE IF MainHasTryCatch(s)
         THEN LET st2 == ConsoleLog(ProcessExit(st, ExitFailure),
                                    "MongoDB connection error")
              IN  [st |-> st2,
                   mainP |-> IF st2.proc = "running" THEN "fulfilled" ELSE "pending"]
         ELSE [st |-> st, mainP |-> "rejected"]

\* main() whose catch block logs and returns (the commented-out connectToDB).
MainAfterAwait_LogOnly(s, outcome, st) ==
    IF outcome = "ok"
    THEN [st |-> ConsoleLog(st, "Connected to MongoDB Atlas"), mainP |-> "fulfilled"]
    ELSE IF MainHasTryCatch(s)
         THEN [st |-> ConsoleLog(st, "MongoDB connection error"), mainP |-> "fulfilled"]
         ELSE [st |-> st, mainP |-> "rejected"]

\* main() whose catch block logs and rethrows instead of exiting.
MainAfterAwait_Rethrow(s, outcome, st) ==
    IF outcome = "ok"
    THEN [st |-> ConsoleLog(st, "Connected to MongoDB Atlas"), mainP |-> "fulfilled"]
    ELSE IF MainHasTryCatch(s)
         THEN [st |-> ConsoleLog(st, "MongoDB connection error"), mainP |-> "rejected"]
         ELSE [st |-> st, mainP |-> "rejected"]

\* The rest of main() once the awaited connect has settled.  r.mainP is the
\* state of the promise main() returned: still pending when process.exit
\* ended the process inside the catch block.
MainAfterAwait(s, outcome, st) ==
    IF outcome = "ok"
    THEN [st |-> ConsoleLog(st, "Connected to MongoDB Atlas"), mainP |-> "fulfilled"]
    ELSE IF MainHasTryCatch(s)
         THEN LET st2 == ProcessExit(ConsoleLog(st, "MongoDB connection error"),
                                     ExitFailure)
              IN  [st |-> st2,
                   mainP |-> IF st2.proc = "running" THEN "fulfilled" ELSE "pending"]
         ELSE [st |-> st, mainP |-> "rejected"]

\* The handler attached with main().catch(...), run when main() rejected.
OuterCatchHandler(s, r) ==
    IF r.mainP # "rejected" \/ r.st.proc # "running"
    THEN r
    ELSE CASE OuterCatch(s) = "log" ->
                [st |-> ConsoleLog(r.st, "MongoDB connection error"), mainP |-> "handled"]
           [] OuterCatch(s) = "exit" ->
                [st |-> ProcessExit(ConsoleLog(r.st, "Error during MongoDB connection"),
                                    ExitFailure),
                 mainP |-> "handled"]
           [] OTHER -> r

\* A rejected promise nobody handles: the one main() returned, or the one
\* mongoose.connect returned when the script dropped it.
RejectionUnhandled(s, outcome, r) ==
    IF s = "server_cjs" THEN outcome = "fail" ELSE r.mainP = "rejected"

AfterUnhandled(mode, st) == IF mode = "throw" THEN Uncaught(st) ELSE st

\* The listener registered for an event of mongoose.connection.
ConnectionListener(e, st) ==
    IF e = "connected"
    THEN ConsoleLog(st, "Connected to MongoDB Atlas")
    ELSE ConsoleLog(st, "MongoDB connection error")

\* How the mongoose version in use reports a MONGO_URI that is not a string:
\* openUri throws before the connection is attempted (the promise rejects,
\* no event), or the failure goes the way of any failed connect.
UriCheckModes == {"throws", "rejects"}

\* The events mongoose.connection emits for the outcome of the first connect:
\* 'connected' on success; 'error' on failure when a listener is registered
\* and the failure is one of the connection attempt.
ConnectionEvents(outcome, ls, uri, check) ==
    IF outcome = "ok" THEN {"connected"}
    ELSE IF uri.t # "string" /\ check = "throws" THEN {}
    ELSE {"error"} \cap ls

\* 'connected' is emitted as the connection opens, before the promise
\* resolves.  Whether 'error' reaches its listener in the turn of the failure
\* or in a later one depends on the mongoose version.
EmissionModes == {"sync", "deferred"}

SyncEvents(outcome, emission, evs) ==
    IF outcome = "ok" \/ emission = "sync" THEN evs ELSE {}

\* emitter.emit(e) for each event of evs: the listeners registered run now.
Emit(evs, ls, st) ==
    IF "connected" \in evs \cap ls THEN ConnectionListener("connected", st)
    ELSE IF "error" \in evs \cap ls THEN ConnectionListener("error", st)
    ELSE st

\* The connect promise settles; its reactions run in the same turn.
ConnectSettles ==
    /\ StackEmpty
    /\ conn = "pending"
    /\ \E outcome \in ConnectOutcomes(mongoURI), mode \in UnhandledRejectionModes,
          emission \in EmissionModes, check \in UriCheckModes :
          LET evs == ConnectionEvents(outcome, listeners, mongoURI, check)
              now == SyncEvents(outcome, emission, evs)
              st0 == Emit(now, listeners, Proc)
              r0  == IF mainP = "pending"
                     THEN MainAfterAwait(script, outcome, st0)
                     ELSE [st |-> st0, mainP |-> mainP]
              r   == OuterCatchHandler(script, r0)
              st  == IF RejectionUnhandled(script, outcome, r)
                     THEN AfterUnhandled(mode, r.st)
                     ELSE r.st
          IN  /\ conn' = IF outcome = "ok" THEN "resolved" ELSE "rejected"
              /\ mainP' = r.mainP
              /\ emitted' = IF st.proc = "running" THEN evs \ now ELSE {}
              /\ Commit(st)
    /\ UNCHANGED <<script, env, pc, connectCalls, listeners, routes, server,
                   listenCalls, listenPort, served, lastBody, save>>

\* A deferred connection event is delivered to its listener.
DeliverEvent ==
    /\ StackEmpty
    /\ \E e \in emitted :
          /\ emitted' = emitted \ {e}
          /\ Commit(Emit({e}, listeners, Proc))
    /\ UNCHANGED <<script, env, pc, conn, connectCalls, mainP, listeners, routes,
                   server, listenCalls, listenPort, served, lastBody, save>>

\* The server's 'listening' callback, or its 'error' event: with no listener
\* for 'error' the event is thrown and ends the process.
ListenCallback(s, outcome, p, st) ==
    IF outcome = "ok"
    THEN ConsoleLog(st, ServerRunningMessage(p))
    ELSE IF ListenHasErrorHandler(s)
         THEN ConsoleLog(st, "Error starting server")
         ELSE Uncaught(st)

ListenSettles ==
    /\ StackEmpty
    /\ server = "binding"
    /\ \E outcome \in {"ok", "fail"} :
          /\ server' = IF outcome = "ok" THEN "listening" ELSE "failed"
          /\ Commit(ListenCallback(script, outcome, listenPort, Proc))
    /\ UNCHANGED <<script, env, pc, conn, connectCalls, mainP, listeners, emitted,
                   routes, listenCalls, listenPort, served, lastBody, save>>

\* A root handler that consults the connection before it answers.
HandleRequest_ReadsState ==
    /\ StackEmpty
    /\ server = "listening"
    /\ served < MaxRequests
    /\ \E path \in {"/"} :
          /\ \E i \in 1..Len(routes) : routes[i] = path
          /\ lastBody' = IF conn = "resolved" THEN RootBody(script) ELSE "Service Unavailable"
    /\ served' = served + 1
    /\ UNCHANGED <<script, env, pc, conn, connectCalls, mainP, listeners, emitted,
                   routes, server, listenCalls, listenPort, save, log, exits, proc>>

\* GET / answered by the root route; the handler reads no state.
HandleRequest ==
    /\ StackEmpty
    /\ server = "listening"
    /\ served < MaxRequests
    /\ \E path \in {"/"} :
          /\ \E i \in 1..Len(routes) : routes[i] = path
          /\ lastBody' = RootBody(script)
    /\ served' = served + 1
    /\ UNCHANGED <<script, env, pc, conn, connectCalls, mainP, listeners, emitted,
                   routes, server, listenCalls, listenPort, save, log, exits, proc>>

\* employee.save() succeeds only over an established connection; it can fail
\* at any time (buffering timeout while not connected, a write error).
SaveOutcomes == IF conn = "resolved" THEN {"ok", "fail"} ELSE {"fail"}

\* The chain without its .catch: a rejected save leaves the top-level await
\* as an uncaught error.
SaveHandlers_NoCatch(outcome, st) ==
    IF outcome = "ok"
    THEN ConsoleLog(st, "Employee saved")
    ELSE Uncaught(st)

\* .then((doc) => console.log('Employee saved:', doc))
\* .catch((err) => console.error('Save failed:', err))
SaveHandlers(outcome, st) ==
    IF outcome = "ok"
    THEN ConsoleLog(st, "Employee saved")
    ELSE ConsoleLog(st, "Save failed")

SaveSettles ==
    /\ StackEmpty
    /\ save = "pending"
    /\ \E outcome \in SaveOutcomes :
          /\ save' = IF outcome = "ok" THEN "fulfilled" ELSE "rejected"
          /\ Commit(SaveHandlers(outcome, Proc))
    /\ UNCHANGED <<script, env, pc, conn, connectCalls, mainP, listeners, emitted,
                   routes, server, listenCalls, listenPort, served, lastBody>>

----------------------------------------------------------------------------

Next ==
    \/ Guard
    \/ CallMain
    \/ CallConnect
    \/ RegisterListener
    \/ RegisterRoute
    \/ Listen
    \/ CallGetIntroduction
    \/ CallSave
    \/ ConnectSettles
    \/ DeliverEvent
    \/ ListenSettles
    \/ HandleRequest
    \/ SaveSettles

Spec == Init /\ [][Next]_vars

----------------------------------------------------------------------------
(* Observations used by the properties *)

\* The script checks MONGO_URI before connecting.
HasGuard(s) == \E i \in DOMAIN TopLevel(s) : TopLevel(s)[i] = "guard"

\* The guard has run and found MONGO_URI missing or empty.
GuardTripped == HasGuard(script) /\ ~Truthy(mongoURI) /\ pc > 1

\* Readiness of the bootstrap, read off the process: nothing attempted yet,
\* the connect pending, resolved, or a configuration / connection failure.
Readiness ==
    IF GuardTripped \/ conn = "rejected" THEN "Failed"
    ELSE IF conn = "resolved" THEN "Ready"
    ELSE IF conn = "pending" THEN "Connecting"
    ELSE "NotStarted"

Count(msg, lines) == Cardinality({i \in DOMAIN lines : lines[i] = msg})

\* Status the operating system sees once the process has ended: the argument
\* of process.exit, or Node's status for an uncaught error.
UncaughtStatus == 1

ExitStatus == IF proc = "exited" THEN exits[Len(exits)] ELSE UncaughtStatus

\* The lines that report a configuration or a connection error.
CauseMessages ==
    {GuardMessage(s) : s \in Scripts}
        \cup {"MongoDB connection error", "Error during MongoDB connection"}

CauseLines == Cardinality({i \in DOMAIN log : log[i] \in CauseMessages})

----------------------------------------------------------------------------
(* C1 *)

\* C1: in every script, when MONGO_URI is absent or empty, mongoose.connect
\* is never invoked.  (Fails in the scripts without the guard: create.js,
\* the CommonJS server and the second server of part_000 call
\* mongoose.connect(undefined).)
C1_NoConnectWithoutUri == ~Truthy(mongoURI) => connectCalls = 0

----------------------------------------------------------------------------
(* C2 *)

\* C2: in a script that validates MONGO_URI, once the guard has run on an
\* absent or empty MONGO_URI the process has exited through process.exit(1):
\* main() was never called, no connection was started or produced, and
\* app.listen was never called, so there is no server.
C2_GuardExits ==
    GuardTripped =>
        /\ proc = "exited"
        /\ exits = <<ExitFailure>>
        /\ mainP = "none"
        /\ conn = "none"
        /\ connectCalls = 0
        /\ listenCalls = 0
        /\ server = "none"
        /\ served = 0

\* A guarded server script has run its guard on an empty MONGO_URI.
C2_Witness ==
    /\ script = "server_guarded"
    /\ mongoURI = Str("")
    /\ GuardTripped
    /\ proc = "exited"

----------------------------------------------------------------------------
(* C3 *)

\* C3: in every script, whenever mongoose.connect has failed, readiness is
\* Failed, app.listen has not been invoked and the process has terminated
\* with a non-zero status.  (Fails in the server scripts: app.listen runs at
\* top level before the connect settles, and the handlers of server_guarded,
\* server_unguarded and server_cjs only log.)
C3_ConnectFailureIsFatal ==
    conn = "rejected" =>
        /\ Readiness = "Failed"
        /\ listenCalls = 0
        /\ proc # "running"
        /\ ExitStatus # 0

----------------------------------------------------------------------------
(* C4 *)

\* C4: in every server script, whenever the HTTP server is listening,
\* mongoose.connect has already completed successfully.  (Fails: the server
\* listens while the connect is pending, and after it failed.)
C4_ListeningImpliesReady ==
    (script \in ServerScripts /\ server = "listening") => Readiness = "Ready"

----------------------------------------------------------------------------
(* C5 *)

\* C5: whenever mongoose.connect has succeeded, readiness is Ready, the
\* success line 'Connected to MongoDB Atlas' has been logged exactly once,
\* and in the server scripts app.listen has been invoked exactly once.
C5_SuccessOnce ==
    conn = "resolved" =>
        /\ Readiness = "Ready"
        /\ Count("Connected to MongoDB Atlas", log) = 1
        /\ script \in ServerScripts => listenCalls = 1

\* A guarded server has connected and is listening.
C5_Witness ==
    /\ script = "server_guarded"
    /\ conn = "resolved"
    /\ server = "listening"
    /\ mainP = "fulfilled"

----------------------------------------------------------------------------
(* C6 *)

\* C6: no startup failure is caught and followed by continued execution:
\* once the guard has tripped, the connect has failed or the server has
\* failed to start listening, the process has terminated.  (Fails: the
\* .catch of the servers without try/catch, the 'error' listener of the
\* CommonJS server and the server 'error' handler of README.md only log.)
C6_NoCatchAndContinue ==
    (GuardTripped \/ conn = "rejected" \/ server = "failed") => proc # "running"

----------------------------------------------------------------------------
(* C7 *)

\* C7: mongoose.connect is invoked at most once in any execution; after a
\* failed attempt there is no second one.
C7_ConnectAtMostOnce == connectCalls <= 1

\* The connect failed, the process went on, and no further attempt was made.
C7_Witness ==
    /\ conn = "rejected"
    /\ proc = "running"
    /\ served > 0
    /\ connectCalls = 1

----------------------------------------------------------------------------
(* C8 *)

ReadinessOrder ==
    {<<"NotStarted", "Connecting">>, <<"Connecting", "Ready">>,
     <<"NotStarted", "Failed">>, <<"Connecting", "Failed">>, <<"Ready", "Failed">>}

\* C8: readiness only moves NotStarted -> Connecting -> Ready, or to Failed;
\* Failed is terminal: once it is reached the program takes no further
\* action.  (Fails: after a failed connect the servers that only log go on
\* listening and answering requests.)
C8_ForwardOnlyFailedTerminal ==
    [][/\ Readiness' # Readiness => <<Readiness, Readiness'>> \in ReadinessOrder
       /\ Readiness = "Failed" => UNCHANGED vars]_vars

----------------------------------------------------------------------------
(* C9 *)

\* C9: every process.exit uses status 1, and the process ends with status 1
\* if and only if MONGO_URI was found missing or mongoose.connect failed.
\* (Fails both ways: a failed connect leaves the log-only servers running,
\* and a listen error without handler ends the process with status 1.)
C9_ExitOneIffConfigOrConnect ==
    /\ \A i \in DOMAIN exits : exits[i] = 1
    /\ (proc # "running" /\ ExitStatus = 1) <=> (GuardTripped \/ conn = "rejected")

----------------------------------------------------------------------------
(* C10 *)

\* C10: whenever the process has ended through process.exit, the call was
\* process.exit(1), the cause was logged exactly once, and the line that
\* reports it is the last line logged: the guard's message when the guard
\* tripped, the connection error when the connect failed.
C10_LogCauseThenExit ==
    proc = "exited" =>
        /\ exits = <<ExitFailure>>
        /\ CauseLines = 1
        /\ log # <<>>
        /\ log[Len(log)] =
              IF GuardTripped THEN GuardMessage(script) ELSE "MongoDB connection error"
        /\ GuardTripped \/ conn = "rejected"

\* create.js: the save failed first, then the connect failed and main's
\* catch block logged and exited.
C10_Witness ==
    /\ script = "create"
    /\ proc = "exited"
    /\ conn = "rejected"
    /\ save = "rejected"

----------------------------------------------------------------------------
(* C11 *)

\* C11: in create.js the code after the main() call does not proceed until
\* the connection has completed: employee.save() is never issued while
\* mongoose.connect is still pending.  (Fails: main() is not awaited, the
\* module goes on as soon as main() reaches its await.)
C11_SaveAfterConnect ==
    [][(script = "create" /\ save = "none" /\ save' # "none") => conn # "pending"]_vars

----------------------------------------------------------------------------
(* C12 *)

\* The top-level statements of the script: Node.js runs them to completion.
TopLevelStep ==
    \/ Guard
    \/ CallMain
    \/ CallConnect
    \/ RegisterListener
    \/ RegisterRoute
    \/ Listen
    \/ CallGetIntroduction
    \/ CallSave

\* The script runs to the end of its top level, and a pending
\* mongoose.connect is eventually settled by the driver.
FairSpec == Spec /\ WF_vars(TopLevelStep) /\ WF_vars(ConnectSettles)

\* The lines main() logs about the outcome of the connect.
OutcomeLines ==
    Count("Connected to MongoDB Atlas", log) + Count("MongoDB connection error", log)
        + Count("Error during MongoDB connection", log)

\* C12: given that the pending mongoose.connect eventually settles, a
\* bootstrap that is Connecting eventually is Ready or Failed (unless the
\* process has ended meanwhile); while the connect is pending readiness stays
\* Connecting, neither outcome has been logged, process.exit has not been
\* called, and no further connect is issued: only the settling of the call
\* takes the bootstrap out of Connecting.
C12_SuspendedUntilSettled ==
    /\ [](conn = "pending" =>
            /\ Readiness = "Connecting"
            /\ OutcomeLines = 0
            /\ exits = <<>>
            /\ connectCalls = 1)
    /\ (conn = "pending") ~> (Readiness \in {"Ready", "Failed"} \/ ~Running)

\* dbconnect is suspended at the await with nothing logged.
C12_Witness ==
    /\ script = "dbconnect"
    /\ conn = "pending"
    /\ StackEmpty
    /\ log = <<>>

----------------------------------------------------------------------------
(* C13 *)

\* The bootstrap of script s run on its own for a MONGO_URI value and a
\* connect outcome: the guard where there is one, main(), and the handler
\* attached with main().catch.  The result is what was logged and how the
\* process ended.
Bootstrap(s, uri, outcome) ==
    LET st0 == [log |-> <<>>, exits |-> <<>>, proc |-> "running"]
        st1 == IF HasGuard(s) THEN GuardStatement(s, uri, st0) ELSE st0
    IN  IF st1.proc # "running"
        THEN st1
        ELSE OuterCatchHandler(s, MainAfterAwait(s, outcome, st1)).st

ConnectionMessages ==
    {"Connected to MongoDB Atlas", "MongoDB connection error",
     "Error during MongoDB connection"}

IsConnectionMessage(line) == line \in ConnectionMessages

ConnectionLog(lines) == SelectSeq(lines, IsConnectionMessage)

\* The scripts that exit inside main's catch block and also attach a .catch.
DoubleHandlerScripts == {"create", "server_readme"}

\* The bootstrap of the running script is over: the guard ended the process
\* or the connect has settled.
BootstrapOver == GuardTripped \/ conn \in {"resolved", "rejected"}

\* C13: the bootstrap with the exit inside main's catch block and an outer
\* .catch (create.js, the README.md server) is equivalent to the one of
\* dbconnect: once it is over, for the same MONGO_URI and connect outcome it
\* has logged the same sequence of connection lines and ended with the same
\* status.  (Fails for create.js on a missing MONGO_URI: it has no guard, so
\* it logs a connection error where dbconnect logs none.)
C13_SameAsDbconnect ==
    (script \in DoubleHandlerScripts /\ BootstrapOver) =>
        LET ref == Bootstrap("dbconnect", mongoURI,
                             IF conn = "resolved" THEN "ok" ELSE "fail")
        IN  /\ ConnectionLog(log) = ConnectionLog(ref.log)
            /\ proc = ref.proc
            /\ exits = ref.exits

----------------------------------------------------------------------------
(* C14 *)

\* The servers whose main() has no try/catch.
NoTryCatchServers == {"server_guarded", "server_unguarded"}

\* C14: in the servers whose main() has no try/catch, once mongoose.connect
\* has rejected the .catch attached to main() has handled the rejection:
\* 'MongoDB connection error' is logged exactly once, 'Connected to MongoDB
\* Atlas' is not logged, and the promise of main() is not left rejected.
C14_RejectionHandledOnce ==
    (script \in NoTryCatchServers /\ conn = "rejected") =>
        /\ Count("MongoDB connection error", log) = 1
        /\ Count("Connected to MongoDB Atlas", log) = 0
        /\ mainP = "handled"
        /\ exits = <<>>

\* The unguarded server ran mongoose.connect(undefined), which rejected.
C14_Witness ==
    /\ script = "server_unguarded"
    /\ mongoURI = Undefined
    /\ conn = "rejected"
    /\ mainP = "handled"

----------------------------------------------------------------------------
(* C15 *)

\* The turn in which mongoose.connect settled is over and no connection
\* event is waiting for delivery.
EventsDelivered == conn \in {"resolved", "rejected"} /\ emitted = {}

\* C15: in the CommonJS server no connection event comes before its
\* listener is registered, and none is missed: once the connect has settled
\* both listeners are registered, a successful connection has logged
\* 'Connected to MongoDB Atlas' and a connection error has logged 'MongoDB
\* connection error'.  (Fails: the promise of mongoose.connect is dropped, so
\* its rejection is unhandled and can end the process before the 'error'
\* listener runs; and mongoose.connect(undefined) can reject with no event.)
C15_NoEventMissed ==
    (script = "server_cjs" /\ EventsDelivered) =>
        /\ listeners = {"connected", "error"}
        /\ conn = "resolved" => Count("Connected to MongoDB Atlas", log) = 1
        /\ conn = "rejected" => Count("MongoDB connection error", log) = 1

----------------------------------------------------------------------------
(* C16 *)

----------------------------------------------------------------------------
(* C17 *)

\* Line a is in the log and line b comes after it.
LoggedBefore(a, b) ==
    \E i, j \in DOMAIN log : i < j /\ log[i] = a /\ log[j] = b

\* C17: in create.js 'Employee saved' is logged only when mongoose.connect
\* succeeded, and after 'Connected to MongoDB Atlas'; when the connect
\* failed, process.exit(1) was called, 'Employee saved' was not logged and
\* the connection error is the last thing the process did.
C17_SavedOnlyWhenConnected ==
    script = "create" =>
        /\ Count("Employee saved", log) > 0 =>
              /\ conn = "resolved"
              /\ LoggedBefore("Connected to MongoDB Atlas", "Employee saved")
        /\ conn = "rejected" =>
              /\ proc = "exited"
              /\ exits = <<ExitFailure>>
              /\ Count("Employee saved", log) = 0
              /\ save # "fulfilled"
              /\ log[Len(log)] = "MongoDB connection error"

\* The connect succeeded and then the save did.
C17_Witness ==
    /\ script = "create"
    /\ conn = "resolved"
    /\ save = "fulfilled"
    /\ Count("Employee saved", log) = 1

----------------------------------------------------------------------------
(* C18 *)

\* C18: in create.js every outcome of employee.save() is handled locally: a
\* successful save has logged 'Employee saved' exactly once and never 'Save
\* failed', a rejected save has logged 'Save failed' exactly once and never
\* 'Employee saved', and a rejected save neither escapes as an uncaught
\* error nor makes the process exit (the process exits only on a failed
\* connect).
C18_SaveHandledLocally ==
    script = "create" =>
        /\ save = "fulfilled" =>
              Count("Employee saved", log) = 1 /\ Count("Save failed", log) = 0
        /\ save = "rejected" =>
              /\ Count("Save failed", log) = 1
              /\ Count("Employee saved", log) = 0
              /\ proc # "crashed"
              /\ proc = "exited" => conn = "rejected"
        /\ save \in {"none", "pending"} =>
              Count("Employee saved", log) = 0 /\ Count("Save failed", log) = 0

\* The save was rejected over an established connection; the process goes on.
C18_Witness ==
    /\ script = "create"
    /\ conn = "resolved"
    /\ save = "rejected"
    /\ Running

----------------------------------------------------------------------------
(* C19 *)

----------------------------------------------------------------------------
(* C20 *)

\* C20: in every server variant the answer to GET / is the fixed body of the
\* script whatever the readiness state (connect pending, succeeded, failed
\* and logged), so runs that differ only in the connect outcome answer
\* alike; and handling a request changes neither the readiness state nor the
\* connection (nor the log, the exits or the process).
C20_RootIgnoresReadiness ==
    [][served' # served =>
          /\ script \in ServerScripts
          /\ lastBody' = RootBody(script)
          /\ conn' = conn
          /\ Readiness' = Readiness
          /\ mainP' = mainP
          /\ emitted' = emitted
          /\ log' = log
          /\ exits' = exits
          /\ proc' = proc]_vars

\* A request answered by a server whose connect had failed, and been logged,
\* before the server started to listen.
C20_Witness ==
    /\ script \in ServerScripts
    /\ served > 0
    /\ conn = "rejected"
    /\ LoggedBefore("MongoDB connection error", ServerRunningMessage(listenPort))
    /\ lastBody = RootBody(script)

----------------------------------------------------------------------------
(* C21 *)

\* Names and positions an Employee document can hold when getIntroduction
\* is called on it (validation runs on save, not on construction).
NameValues == {Undefined, Str(""), Str("James Bond"), Str("Alex Chow")}

PositionValues == {Undefined, Str("Developer"), Str("Instructor")}

EmployeeDocuments == [name : NameValues, position : PositionValues]

\* The line announced by the comment on employee.getIntroduction().
CommentedIntroduction == "Hello, my name is Alex Chow and I am an Instructor"

\* The top level of create.js has run employee.getIntroduction().
IntroductionCalled ==
    /\ script = "create"
    /\ \E i \in 1..(pc - 1) : TopLevel(script)[i] = "getIntroduction"

\* C21: for every Employee document getIntroduction logs 'Hello, my name is
\* <name> and I am an <position>' built from the document's own name and
\* position when the name is non-empty and 'I don't have a name' otherwise;
\* and for the document constructed in create.js the line logged is the one
\* stated in the comment on the call.
C21_IntroductionAsCommented ==
    /\ \A doc \in EmployeeDocuments :
          getIntroduction(doc) =
              IF doc.name.t = "string" /\ doc.name.v # ""
              THEN "Hello, my name is " \o doc.name.v \o " and I am an " \o Text(doc.position)
              ELSE "I don't have a name"
    /\ IntroductionCalled =>
          /\ Count(getIntroduction(employee), log) = 1
          /\ getIntroduction(employee) = CommentedIntroduction

====
